---- MODULE Spec2Model ----
(***************************************************************************)
(* The repeating minute timer of script.js (two builds of the same script: *)
(* src/script.js and src/unnamed/part_000).  Time is in milliseconds, as   *)
(* in the code.  localStorage holds strings, modelled as sequences of      *)
(* one-character strings, so that toString / parseInt are real             *)
(* conversions.                                                            *)
(***************************************************************************)
EXTENDS Integers, Sequences, FiniteSets

\* ------------------------------------------------------------ constants
DURATION == 60
TICK_INTERVAL == 250

\* DURATION * 1000, the cycle length in ms (the spec's cycleDurationMs)
CycleMs == DURATION * 1000

\* ------------------------------------------------------------ bounds
\* number of clock advances in one behaviour
MaxAdvances == 3
\* number of page loads in one behaviour
MaxLoads == 2
\* number of finishes in one behaviour (more than MaxAdvances clock steps
\* can bring about unless a finish fails to begin the next cycle)
MaxFinishes == 5
\* largest remaining time, in ms, that is formatted
MaxFormatMs == 61000
\* number of times the clock is run to the end of the cycle when it is
MaxRunOuts == 1
\* number of clock steps in a behaviour of ticks and clock steps only
MaxDriftAdvances == 4
\* number of cycles the clock runs through in a behaviour under fairness
MaxCycles == 3

\* the amounts by which the wall clock advances between two events
Steps == {TICK_INTERVAL, CycleMs \div 2, CycleMs}

\* ------------------------------------------------------------ JS values
\* The JS number NaN; every other number of the model is an integer far
\* above it.
NaN == 0 - 2000000000

IsNaN(x) == x = NaN

\* a + b on JS numbers
JsAdd(a, b) == IF IsNaN(a) \/ IsNaN(b) THEN NaN ELSE a + b

\* a > b and a < b on JS numbers: false when either is NaN
JsGt(a, b) == ~IsNaN(a) /\ ~IsNaN(b) /\ a > b
JsLt(a, b) == ~IsNaN(a) /\ ~IsNaN(b) /\ a < b

\* Math.max(0, x)
MathMax0(x) == IF IsNaN(x) THEN NaN ELSE IF x > 0 THEN x ELSE 0

\* localStorage.getItem of a key that is not stored: null
Null == <<"null">>

\* JS truthiness of a getItem result: neither null nor the empty string
Truthy(v) == v # Null /\ v # << >>

Digits == <<"0", "1", "2", "3", "4", "5", "6", "7", "8", "9">>

IsDigit(c) == \E i \in 1..10 : Digits[i] = c

DigitVal(c) == (CHOOSE i \in 1..10 : Digits[i] = c) - 1

RECURSIVE NatToString(_)
NatToString(n) ==
  IF n < 10 THEN <<Digits[n + 1]>>
  ELSE Append(NatToString(n \div 10), Digits[(n % 10) + 1])

\* Number.prototype.toString() of an integer or NaN
toString(n) ==
  IF IsNaN(n) THEN <<"N", "a", "N">>
  ELSE IF n < 0 THEN <<"-">> \o NatToString(0 - n)
  ELSE NatToString(n)

\* Boolean.prototype.toString()
BoolToString(b) == IF b THEN <<"t", "r", "u", "e">> ELSE <<"f", "a", "l", "s", "e">>

RECURSIVE SkipSpaces(_)
SkipSpaces(s) == IF s # << >> /\ Head(s) = " " THEN SkipSpaces(Tail(s)) ELSE s

\* the value of the longest prefix of digits of s, given the value acc of
\* the digits already read
RECURSIVE DigitsPrefix(_, _)
DigitsPrefix(s, acc) ==
  IF s # << >> /\ IsDigit(Head(s))
  THEN DigitsPrefix(Tail(s), acc * 10 + DigitVal(Head(s)))
  ELSE acc

\* parseInt(s, 10): leading blanks skipped, an optional sign, then the
\* longest run of digits; NaN when there is no digit
ParseInt(str) ==
  LET s == SkipSpaces(str)
      neg == s # << >> /\ Head(s) = "-"
      body == IF s # << >> /\ Head(s) \in {"-", "+"} THEN Tail(s) ELSE s
  IN IF body = << >> \/ ~IsDigit(Head(body)) THEN NaN
     ELSE IF neg THEN 0 - DigitsPrefix(body, 0) ELSE DigitsPrefix(body, 0)

\* ------------------------------------------------------------ the store
K_RUNNING == "shanti_running"
K_PAUSED == "shanti_paused_remaining"
K_MUTED == "shanti_muted"
K_COUNT == "shanti_session_count"

Keys == {K_RUNNING, K_PAUSED, K_MUTED, K_COUNT}

\* the store of a profile that never ran the page
EmptyStore == [k \in Keys |-> Null]

S_30000 == <<"3", "0", "0", "0", "0">>
S_70000 == <<"7", "0", "0", "0", "0">>
S_abc == <<"a", "b", "c">>
S_true == <<"t", "r", "u", "e">>

\* a store with the given entries (Null: not stored)
StoreOf(r, p, m, c) ==
  [k \in Keys |-> CASE k = K_RUNNING -> r
                    [] k = K_PAUSED -> p
                    [] k = K_MUTED -> m
                    [] OTHER -> c]

\* What a page load can find in the store: nothing; what the engine wrote
\* in an earlier session (paused at 30 s, muted, after 7 cycles; running
\* after 7 cycles); and entries it never writes (unparsable, out of range,
\* a remaining time beside running = "1").
InitialStores ==
  { EmptyStore,
    StoreOf(<<"0">>, S_30000, S_true, <<"7">>),
    StoreOf(<<"1">>, Null, Null, <<"7">>),
    StoreOf(<<"1">>, S_30000, Null, Null),
    StoreOf(Null, Null, Null, S_abc),
    StoreOf(<<"0">>, S_abc, Null, Null),
    StoreOf(<<"0">>, <<"-", "5">>, Null, Null),
    StoreOf(<<"0">>, S_70000, Null, Null) }

\* ------------------------------------------------------------ state
VARIABLES
  build,              \* which of the two builds of the script the page runs
  timerElement,       \* whether the page has the #timer element
  webAudio,           \* whether an AudioContext can be constructed
  vibrateApi,         \* whether navigator.vibrate exists
  storageFails,       \* whether localStorage.setItem throws
  audioContext,       \* whether audioContext holds a context (not null)
  bgMusic,            \* whether the page has the #bgMusic audio element
  blocked,            \* whether the browser rejects bgMusic.play() for now
  playing,            \* whether the #bgMusic element is playing
  elMuted,            \* bgMusic.muted
  unlock,             \* whether the load's unlock listener is registered
  retries,            \* how many playOnInteraction listeners are registered
  shown,              \* the text the last handler run wrote to
                      \* timerElement.textContent, NoText if it wrote none
  fx,                 \* the effects the last handler run emitted:
                      \* "announce", "chime", "vibrate"
  pc,                 \* "loading": script evaluated, DOMContentLoaded pending;
                      \* "ready": initialised, listeners bound;
                      \* "failed": initialisation threw before binding them
  now,                \* Date.now()
  endTimeMs, intervalId, pausedRemainingMs, running, muted, sessionCount,
  timers,             \* the scheduler's active setInterval handles
  store,              \* localStorage
  finishes,           \* history: onFinish calls that completed
  completed,          \* history: cycles whose end instant the clock reached
                      \* while Running
  lastOp,             \* history: the last event
  resumed,            \* history: <<time, remaining>> of the startTimer call
                      \* that set the current endTimeMs, << >> otherwise
  cycleRun,           \* history: Running time elapsed in the current cycle
  quiet, loadedAt,    \* history: loaded from an empty store with only clock
                      \* and tick events since; the time of the load
  late,               \* history, while quiet: <<sum, largest>> of the times
                      \* by which the finishing ticks came after endTimeMs
  advances, loads     \* history: counters bounding a behaviour

vars == <<build, timerElement, webAudio, vibrateApi, storageFails,
          audioContext, bgMusic, blocked, playing, elMuted, unlock, retries,
          shown, fx, pc, now, endTimeMs, intervalId,
          pausedRemainingMs, running, muted, sessionCount, timers, store,
          finishes, completed, lastOp, resumed, cycleRun, quiet, loadedAt,
          late, advances, loads>>

\* no text written to #timer
NoText == << >>

\* the two literals the script writes to #timer
T_0000 == <<"0", "0", ":", "0", "0">>
T_0100 == <<"0", "1", ":", "0", "0">>

\* the program's state as one value, for the handlers to transform; threw
\* says that the running handler has thrown, its remaining statements
\* being skipped
Cur ==
  [endTimeMs |-> endTimeMs, intervalId |-> intervalId,
   pausedRemainingMs |-> pausedRemainingMs, running |-> running,
   muted |-> muted, sessionCount |-> sessionCount, timers |-> timers,
   store |-> store, finishes |-> finishes,
   audioContext |-> audioContext, shown |-> NoText, fx |-> {},
   playing |-> playing, elMuted |-> elMuted, unlock |-> unlock,
   retries |-> retries, threw |-> FALSE]

\* the module-level variables as the script's declarations leave them
Fresh(st) ==
  [endTimeMs |-> 0, intervalId |-> 0, pausedRemainingMs |-> DURATION * 1000,
   running |-> FALSE, muted |-> FALSE, sessionCount |-> 0, timers |-> {},
   store |-> st, finishes |-> 0,
   audioContext |-> FALSE, shown |-> NoText, fx |-> {},
   playing |-> FALSE, elMuted |-> FALSE, unlock |-> FALSE, retries |-> 0,
   threw |-> FALSE]

\* ------------------------------------------------------------ handlers
\* Each handler is a function of the program's state s and of the value t
\* that Date.now() returns while it runs.

setItem(s, k, v) ==
  IF s.threw THEN s
  ELSE IF storageFails THEN [s EXCEPT !.threw = TRUE]
  ELSE [s EXCEPT !.store[k] = v]

removeItem(s, k) == IF s.threw THEN s ELSE [s EXCEPT !.store[k] = Null]

\* setInterval: a handle not in use (the smallest), and the timer active
setInterval(s) ==
  LET h == CHOOSE i \in 1..(Cardinality(s.timers) + 1) : i \notin s.timers
  IN [s EXCEPT !.intervalId = h, !.timers = @ \cup {h}]

clearInterval(s, h) == [s EXCEPT !.timers = @ \ {h}]

setEndFromNow(s, t) ==
  IF s.threw THEN s ELSE [s EXCEPT !.endTimeMs = t + DURATION * 1000]

\* String.prototype.padStart(2, '0')
padStart2(str) == IF Len(str) < 2 THEN <<"0">> \o str ELSE str

\* Math.ceil(x / 1000) of an integer x >= 0
CeilDiv1000(x) == (x + 999) \div 1000

\* msToMMSS as it would be with Math.floor for Math.ceil
msToMMSS_floor(ms) ==
  LET m == MathMax0(ms)
  IN IF IsNaN(m) THEN toString(NaN) \o <<":">> \o toString(NaN)
     ELSE LET totalSeconds == m \div 1000
              minutes == totalSeconds \div 60
              seconds == totalSeconds % 60
          IN padStart2(toString(minutes)) \o <<":">>
               \o padStart2(toString(seconds))

msToMMSS(ms) ==
  LET m == MathMax0(ms)
  IN IF IsNaN(m) THEN toString(NaN) \o <<":">> \o toString(NaN)
     ELSE LET totalSeconds == CeilDiv1000(m)
              minutes == totalSeconds \div 60
              seconds == totalSeconds % 60
          IN padStart2(toString(minutes)) \o <<":">>
               \o padStart2(toString(seconds))

initAudio(s) == [s EXCEPT !.audioContext = webAudio]

\* playChime as it would be without its test of muted
playChime_ignoresMute(s) ==
  IF ~s.audioContext THEN s
  ELSE [s EXCEPT !.fx = @ \cup {"chime"}]

playChime(s) ==
  IF s.muted \/ ~s.audioContext THEN s
  ELSE [s EXCEPT !.fx = @ \cup {"chime"}]

triggerVibration(s) ==
  IF s.muted \/ ~vibrateApi THEN s
  ELSE [s EXCEPT !.fx = @ \cup {"vibrate"}]

\* onFinish as it would be if the next cycle began at the end of the last
\* one instead of at Date.now()
onFinish_fromEnd(s, t) ==
  IF ~timerElement THEN s
  ELSE LET a == [s EXCEPT !.shown = T_0000, !.fx = @ \cup {"announce"}]
           b == triggerVibration(playChime(a))
           c == [b EXCEPT !.finishes = @ + 1,
                          !.sessionCount = JsAdd(@, 1)]
           d == setItem(c, K_COUNT, toString(c.sessionCount))
       IN IF d.threw THEN d
          ELSE [d EXCEPT !.endTimeMs = @ + DURATION * 1000]

\* onFinish as it would be without the restart of the next cycle
onFinish_noNextCycle(s, t) ==
  IF ~timerElement THEN s
  ELSE LET a == [s EXCEPT !.shown = T_0000, !.fx = @ \cup {"announce"}]
           b == triggerVibration(playChime(a))
           c == [b EXCEPT !.finishes = @ + 1,
                          !.sessionCount = JsAdd(@, 1)]
       IN setItem(c, K_COUNT, toString(c.sessionCount))

\* Without the #timer element part_000 returns at once and script.js
\* throws on its first statement: either way nothing is changed.
onFinish(s, t) ==
  IF ~timerElement THEN s
  ELSE LET a == [s EXCEPT !.shown = T_0000, !.fx = @ \cup {"announce"}]
           b == triggerVibration(playChime(a))
           c == [b EXCEPT !.finishes = @ + 1,
                          !.sessionCount = JsAdd(@, 1)]
           d == setItem(c, K_COUNT, toString(c.sessionCount))
       IN setEndFromNow(d, t)

\* tick as it would be with remainingMs < 0 for remainingMs <= 0
tick_strict(s, t) ==
  LET remainingMs == s.endTimeMs - t
  IN IF remainingMs < 0 THEN onFinish(s, t)
     ELSE IF timerElement THEN [s EXCEPT !.shown = msToMMSS(remainingMs)]
     ELSE s

\* tick as it would be if it showed the time left, clamped at zero, and
\* never called onFinish
tick_noFinish(s, t) ==
  LET remainingMs == s.endTimeMs - t
  IN IF timerElement THEN [s EXCEPT !.shown = msToMMSS(remainingMs)] ELSE s

tick(s, t) ==
  LET remainingMs == s.endTimeMs - t
  IN IF remainingMs <= 0 THEN onFinish(s, t)
     ELSE IF timerElement THEN [s EXCEPT !.shown = msToMMSS(remainingMs)]
     ELSE s

\* startTimer as it would be if it ignored the paused remaining time
startTimer_alwaysFresh(s, t) ==
  IF s.running THEN s
  ELSE LET a == [s EXCEPT !.running = TRUE]
           b == setEndFromNow(a, t)
           c == IF b.intervalId # 0 THEN clearInterval(b, b.intervalId) ELSE b
           d == setInterval(c)
       IN removeItem(setItem(d, K_RUNNING, <<"1">>), K_PAUSED)

\* startTimer as it would be without its first line, if (running) return
startTimer_noGuard(s, t) ==
  LET a == [s EXCEPT !.running = TRUE]
      b == IF JsGt(a.pausedRemainingMs, 0)
              /\ JsLt(a.pausedRemainingMs, DURATION * 1000)
           THEN [a EXCEPT !.endTimeMs = t + a.pausedRemainingMs]
           ELSE setEndFromNow(a, t)
      c == IF b.intervalId # 0 THEN clearInterval(b, b.intervalId) ELSE b
      d == setInterval(c)
  IN removeItem(setItem(d, K_RUNNING, <<"1">>), K_PAUSED)

\* startTimer as it would be without removeItem('shanti_paused_remaining')
startTimer_keepsPaused(s, t) ==
  IF s.running THEN s
  ELSE LET a == [s EXCEPT !.running = TRUE]
           b == IF JsGt(a.pausedRemainingMs, 0)
                   /\ JsLt(a.pausedRemainingMs, DURATION * 1000)
                THEN [a EXCEPT !.endTimeMs = t + a.pausedRemainingMs]
                ELSE setEndFromNow(a, t)
           c == IF b.intervalId # 0 THEN clearInterval(b, b.intervalId) ELSE b
           d == setInterval(c)
       IN setItem(d, K_RUNNING, <<"1">>)

startTimer(s, t) ==
  IF s.running THEN s
  ELSE LET a == [s EXCEPT !.running = TRUE]
           b == IF JsGt(a.pausedRemainingMs, 0)
                   /\ JsLt(a.pausedRemainingMs, DURATION * 1000)
                THEN [a EXCEPT !.endTimeMs = t + a.pausedRemainingMs]
                ELSE setEndFromNow(a, t)
           c == IF b.intervalId # 0 THEN clearInterval(b, b.intervalId) ELSE b
           d == setInterval(c)
       IN removeItem(setItem(d, K_RUNNING, <<"1">>), K_PAUSED)

\* pauseTimer as it would be if it dropped the handle without clearing
\* the interval
pauseTimer_keepsTimer(s, t) ==
  IF ~s.running THEN s
  ELSE LET a == [s EXCEPT !.running = FALSE]
           b == [a EXCEPT !.intervalId = 0]
           c == [b EXCEPT !.pausedRemainingMs = MathMax0(b.endTimeMs - t)]
       IN setItem(setItem(c, K_RUNNING, <<"0">>),
                  K_PAUSED, toString(c.pausedRemainingMs))

\* pauseTimer as it would be without setItem('shanti_running', '0')
pauseTimer_noSave(s, t) ==
  IF ~s.running THEN s
  ELSE LET a == [s EXCEPT !.running = FALSE]
           b == [clearInterval(a, a.intervalId) EXCEPT !.intervalId = 0]
           c == [b EXCEPT !.pausedRemainingMs = MathMax0(b.endTimeMs - t)]
       IN setItem(c, K_PAUSED, toString(c.pausedRemainingMs))

pauseTimer(s, t) ==
  IF ~s.running THEN s
  ELSE LET a == [s EXCEPT !.running = FALSE]
           b == [clearInterval(a, a.intervalId) EXCEPT !.intervalId = 0]
           c == [b EXCEPT !.pausedRemainingMs = MathMax0(b.endTimeMs - t)]
       IN setItem(setItem(c, K_RUNNING, <<"0">>),
                  K_PAUSED, toString(c.pausedRemainingMs))

toggleTimer(s, t) == IF s.running THEN pauseTimer(s, t) ELSE startTimer(s, t)

\* restartTimer as it would be without setEndFromNow() before its tick()
restartTimer_keepsEnd(s, t) ==
  LET a == [s EXCEPT !.pausedRemainingMs = DURATION * 1000]
      b == IF a.running THEN tick(a, t)
           ELSE IF timerElement THEN [a EXCEPT !.shown = T_0100]
           ELSE a
  IN IF build = "script" /\ ~timerElement THEN b
     ELSE setItem(b, K_PAUSED, toString(b.pausedRemainingMs))

\* Without the #timer element script.js throws at the display update
\* (in tick, or at line 194) and the save is not reached.
restartTimer(s, t) ==
  LET a == [s EXCEPT !.pausedRemainingMs = DURATION * 1000]
      b == IF a.running THEN tick(setEndFromNow(a, t), t)
           ELSE IF timerElement THEN [a EXCEPT !.shown = T_0100]
           ELSE a
  IN IF build = "script" /\ ~timerElement THEN b
     ELSE setItem(b, K_PAUSED, toString(b.pausedRemainingMs))

\* What toggleMute does to the background music.  script.js mutes the
\* element.  part_000 pauses it, or plays it; when play() is rejected the
\* promise's catch registers a playOnInteraction listener on the document.
muteMusic(s) ==
  IF ~bgMusic THEN s
  ELSE IF build = "script" THEN [s EXCEPT !.elMuted = s.muted]
  ELSE IF s.muted THEN [s EXCEPT !.playing = FALSE]
  ELSE IF blocked THEN [s EXCEPT !.retries = @ + 1]
  ELSE [s EXCEPT !.playing = TRUE]

\* toggleMute as it would be without setItem('shanti_muted', ...)
toggleMute_noSave(s) == muteMusic([s EXCEPT !.muted = ~@])

toggleMute(s) ==
  LET a == muteMusic([s EXCEPT !.muted = ~@])
  IN setItem(a, K_MUTED, BoolToString(a.muted))

\* the listener the load registers when its play() was rejected: unlock in
\* script.js, unlockAudio (which tests muted) in part_000
unlockAudio(s) ==
  [s EXCEPT !.unlock = FALSE,
            !.playing = @ \/ (~blocked /\ (build = "script" \/ ~s.muted))]

\* part_000: the listeners toggleMute registers
playOnInteraction(s, n) ==
  [s EXCEPT !.retries = @ - n, !.playing = @ \/ ~blocked]

\* A click or key press: after its handler has taken the program from s0
\* to s1, the document's listeners that were registered before the event
\* run and remove themselves.
userEvent(s0, s1) ==
  LET a == IF s0.unlock THEN unlockAudio(s1) ELSE s1
  IN IF s0.retries > 0 THEN playOnInteraction(a, s0.retries) ELSE a

\* the load tries to play the background music; when play() is rejected
\* the promise's catch registers the unlock listener
setupMusic(s) ==
  IF ~bgMusic THEN s
  ELSE IF blocked THEN [s EXCEPT !.unlock = TRUE]
  ELSE [s EXCEPT !.playing = TRUE]

\* the part of the load-time initialisation that both builds share: the
\* saved mute flag, cycle count and remaining time are restored
restoreSaved(s) ==
  LET savedMuted == s.store[K_MUTED]
      savedPausedRemaining == s.store[K_PAUSED]
      savedSessionCount == s.store[K_COUNT]
      a == IF savedMuted = <<"t", "r", "u", "e">>
           THEN [s EXCEPT !.muted = TRUE, !.elMuted = bgMusic] ELSE s
      b == IF Truthy(savedSessionCount)
           THEN [a EXCEPT !.sessionCount = ParseInt(savedSessionCount)] ELSE a
      c == IF Truthy(savedPausedRemaining)
           THEN [b EXCEPT !.pausedRemainingMs = ParseInt(savedPausedRemaining)]
           ELSE b
  IN IF Truthy(savedPausedRemaining) /\ timerElement
     THEN [c EXCEPT !.shown = msToMMSS(c.pausedRemainingMs)]
     ELSE c

\* script.js throws at line 282 when it has a saved remaining time to show
\* and no #timer element, and in the startTimer of line 287 when setItem
\* throws: the handler ends there, no listener bound
loadThrows(s) ==
  /\ build = "script"
  /\ \/ ~timerElement /\ Truthy(s.store[K_PAUSED])
     \/ storageFails /\ s.store[K_RUNNING] = <<"1">>

\* script.js: the DOMContentLoaded handler
DOMContentLoaded(s, t) ==
  LET savedRunning == s.store[K_RUNNING]
      c == restoreSaved(setupMusic(initAudio(s)))
      d == IF savedRunning = <<"1">> THEN startTimer(c, t)
           ELSE IF Truthy(s.store[K_PAUSED]) THEN [c EXCEPT !.running = FALSE]
           ELSE c
  IN IF ~timerElement /\ Truthy(s.store[K_PAUSED]) THEN c
     ELSE IF d.threw THEN d
     ELSE IF savedRunning # <<"0">> THEN startTimer(d, t) ELSE d

\* part_000: initApp
initApp(s, t) ==
  LET savedRunning == s.store[K_RUNNING]
      c == restoreSaved(setupMusic(initAudio(s)))
  IN IF savedRunning = <<"1">> THEN startTimer(c, t)
     ELSE startTimer([c EXCEPT !.running = FALSE], t)

\* ------------------------------------------------------------ actions
Builds == {"script", "part_000"}

\* what the page and the browser provide: the #timer element, Web Audio,
\* navigator.vibrate, and a localStorage that takes writes
Provided(el, audio, vib, writes) ==
  [timerElement |-> el, webAudio |-> audio, vibrateApi |-> vib,
   storageFails |-> ~writes]

\* before DOMContentLoaded, over the stores and environments given, on a
\* page with the #bgMusic element (music) or without it
InitWith(stores, envs, music) ==
  /\ build \in Builds
  /\ bgMusic = music
  /\ blocked \in (IF music THEN BOOLEAN ELSE {FALSE})
  /\ playing = FALSE /\ elMuted = FALSE /\ unlock = FALSE /\ retries = 0
  /\ \E e \in envs :
       /\ timerElement = e.timerElement /\ webAudio = e.webAudio
       /\ vibrateApi = e.vibrateApi /\ storageFails = e.storageFails
  /\ audioContext = FALSE /\ shown = NoText /\ fx = {}
  /\ pc = "loading"
  /\ now = 0
  /\ store \in stores
  /\ endTimeMs = 0 /\ intervalId = 0 /\ pausedRemainingMs = DURATION * 1000
  /\ running = FALSE /\ muted = FALSE /\ sessionCount = 0
  /\ timers = {}
  /\ finishes = 0 /\ completed = 0
  /\ lastOp = "none"
  /\ resumed = << >> /\ cycleRun = 0 /\ quiet = FALSE /\ loadedAt = 0
  /\ late = <<0, 0>>
  /\ advances = 0 /\ loads = 0

\* the page as the script expects it (script.js dereferences #timer
\* unguarded), without background music, in a browser that provides
\* everything, over any store content
Init == InitWith(InitialStores, {Provided(TRUE, TRUE, TRUE, TRUE)}, FALSE)

\* startTimer's test for resuming rather than starting a full cycle
Resumes(p) == JsGt(p, 0) /\ JsLt(p, DURATION * 1000)

\* a remaining time that pauseTimer can have computed
InRange(p) == ~IsNaN(p) /\ 0 <= p /\ p <= DURATION * 1000

\* The program moves to state s2 by event op; the history variables follow.
Apply(op, s2) ==
  /\ endTimeMs' = s2.endTimeMs /\ intervalId' = s2.intervalId
  /\ pausedRemainingMs' = s2.pausedRemainingMs /\ running' = s2.running
  /\ muted' = s2.muted /\ sessionCount' = s2.sessionCount
  /\ timers' = s2.timers /\ store' = s2.store /\ finishes' = s2.finishes
  /\ audioContext' = s2.audioContext /\ shown' = s2.shown /\ fx' = s2.fx
  /\ playing' = s2.playing /\ elMuted' = s2.elMuted
  /\ unlock' = s2.unlock /\ retries' = s2.retries
  /\ lastOp' = op
  /\ completed' = IF op \in {"restart", "load", "unload"} THEN s2.finishes
                  ELSE completed
  /\ resumed' = IF s2.running /\ ~running
                THEN <<now, s2.pausedRemainingMs>>
                ELSE IF s2.finishes # finishes \/ op = "restart" THEN << >>
                ELSE resumed
  /\ cycleRun' = IF op = "load"
                 THEN (IF InRange(s2.pausedRemainingMs)
                          /\ (~s2.running \/ Resumes(s2.pausedRemainingMs))
                       THEN DURATION * 1000 - s2.pausedRemainingMs ELSE 0)
                 ELSE IF \/ s2.running /\ ~running
                            /\ ~Resumes(s2.pausedRemainingMs)
                         \/ s2.finishes # finishes
                         \/ op = "restart"
                 THEN 0
                 ELSE cycleRun
  /\ quiet' = IF op = "load" THEN store = EmptyStore
              ELSE quiet /\ op = "tick"
  /\ loadedAt' = IF op = "load" THEN now ELSE loadedAt
  /\ late' = IF ~(quiet /\ op = "tick") THEN <<0, 0>>
             ELSE IF s2.finishes # finishes
             THEN LET d == now - endTimeMs
                  IN <<late[1] + d, IF d > late[2] THEN d ELSE late[2]>>
             ELSE late
  /\ UNCHANGED <<build, timerElement, webAudio, vibrateApi, storageFails,
                 bgMusic, blocked, now, advances>>

\* script.js: DOMContentLoaded fires
LoadScript ==
  /\ pc = "loading" /\ build = "script" /\ loads < MaxLoads
  /\ Apply("load", DOMContentLoaded(Cur, now))
  /\ pc' = IF loadThrows(Cur) THEN "failed" ELSE "ready"
  /\ loads' = loads + 1

\* part_000: initApp runs
LoadPart ==
  /\ pc = "loading" /\ build = "part_000" /\ loads < MaxLoads
  /\ Apply("load", initApp(Cur, now))
  /\ pc' = "ready"
  /\ loads' = loads + 1

\* the page is closed or reloaded: the script's variables and timers are
\* gone, the store stays
Unload ==
  /\ pc # "loading" /\ loads < MaxLoads
  /\ Apply("unload", [Fresh(store) EXCEPT !.finishes = finishes])
  /\ pc' = "loading"
  /\ UNCHANGED loads

\* the interval callback of an active timer runs
Tick ==
  /\ timers # {}
  /\ finishes < MaxFinishes
  /\ Apply("tick", tick(Cur, now))
  /\ UNCHANGED <<pc, loads>>

Start ==
  /\ pc = "ready"
  /\ Apply("start", startTimer(Cur, now))
  /\ UNCHANGED <<pc, loads>>

Pause ==
  /\ pc = "ready"
  /\ Apply("pause", pauseTimer(Cur, now))
  /\ UNCHANGED <<pc, loads>>

\* the toggle button, or the space key; the event is recorded as the
\* operation toggleTimer dispatches to
Toggle ==
  /\ pc = "ready"
  /\ Apply(IF running THEN "pause" ELSE "start",
           userEvent(Cur, toggleTimer(Cur, now)))
  /\ UNCHANGED <<pc, loads>>

\* the restart button, or the r key
Restart ==
  /\ pc = "ready"
  /\ Apply("restart", userEvent(Cur, restartTimer(Cur, now)))
  /\ UNCHANGED <<pc, loads>>

\* the mute button, or the m key
ToggleMute ==
  /\ pc = "ready"
  /\ Apply("mute", userEvent(Cur, toggleMute(Cur)))
  /\ UNCHANGED <<pc, loads>>

\* wall-clock time passes: by one of the amounts ds, at most max times
AdvanceBy(ds, max) ==
  /\ advances < max
  /\ \E d \in ds :
       /\ now' = now + d
       /\ cycleRun' = IF running THEN cycleRun + d ELSE cycleRun
       /\ completed' = IF running /\ now < endTimeMs /\ endTimeMs <= now + d
                       THEN completed + 1 ELSE completed
  /\ advances' = advances + 1
  /\ lastOp' = "advance"
  /\ fx' = {} /\ shown' = NoText
  /\ UNCHANGED <<build, timerElement, webAudio, vibrateApi, storageFails,
                 audioContext, bgMusic, blocked, playing, elMuted, unlock,
                 retries, pc, endTimeMs, intervalId,
                 pausedRemainingMs, running, muted, sessionCount, timers,
                 store, finishes, resumed, quiet, loadedAt, late, loads>>

Advance == AdvanceBy(Steps, MaxAdvances)

Next ==
  \/ LoadScript \/ LoadPart \/ Unload \/ Tick \/ Start \/ Pause \/ Toggle
  \/ Restart \/ ToggleMute \/ Advance

Spec == Init /\ [][Next]_vars

\* a click or key press that no handler of the script is bound to
Interact ==
  /\ pc # "loading"
  /\ Apply("interact", userEvent(Cur, Cur))
  /\ UNCHANGED <<pc, loads>>

\* the browser begins or ceases to reject play()
Policy ==
  /\ blocked' = ~blocked
  /\ UNCHANGED <<build, timerElement, webAudio, vibrateApi, storageFails,
                 audioContext, bgMusic, playing, elMuted, unlock, retries,
                 shown, fx, pc, now, endTimeMs, intervalId,
                 pausedRemainingMs, running, muted, sessionCount, timers,
                 store, finishes, completed, lastOp, resumed, cycleRun,
                 quiet, loadedAt, late, advances, loads>>

\* A page with background music: loads and reloads, the mute toggle, other
\* user events, and the browser's autoplay policy; first visit or muted.
MusicStores == {EmptyStore, StoreOf(<<"0">>, S_30000, S_true, <<"7">>)}

InitMusic == InitWith(MusicStores, {Provided(TRUE, TRUE, TRUE, TRUE)}, TRUE)

NextMusic ==
  \/ LoadScript \/ LoadPart \/ Unload \/ ToggleMute \/ Restart \/ Interact
  \/ Policy

SpecMusic == InitMusic /\ [][NextMusic]_vars

\* The page's life under fair scheduling: once loaded, the interval keeps
\* calling tick and the clock keeps advancing, through to the end of the
\* running cycle or TICK_INTERVAL beyond it, for MaxCycles cycles; the
\* user may pause and resume at any time.  The clock is not advanced
\* while paused, where it changes nothing.
ClockRuns ==
  /\ running /\ now < endTimeMs
  /\ AdvanceBy({endTimeMs - now, endTimeMs - now + TICK_INTERVAL}, MaxCycles)

LiveStores ==
  {EmptyStore, StoreOf(<<"0">>, S_30000, S_true, <<"7">>),
   StoreOf(<<"1">>, Null, Null, <<"7">>)}

InitLive == InitWith(LiveStores, {Provided(TRUE, TRUE, TRUE, TRUE)}, FALSE)

NextLive == LoadScript \/ LoadPart \/ Tick \/ ClockRuns \/ Toggle

SpecLive ==
  InitLive /\ [][NextLive]_vars /\ WF_vars(Tick) /\ WF_vars(ClockRuns)

\* Uninterrupted Running from a first visit: the page loads, and then only
\* the clock and the interval act; a tick comes on time or TICK_INTERVAL
\* late.
DriftSteps == {TICK_INTERVAL, CycleMs}

Elapse == AdvanceBy(DriftSteps, MaxDriftAdvances)

InitDrift ==
  InitWith({EmptyStore}, {Provided(TRUE, TRUE, TRUE, TRUE)}, FALSE)

NextDrift == LoadScript \/ LoadPart \/ Tick \/ Elapse

SpecDrift == InitDrift /\ [][NextDrift]_vars

\* The remaining times that are formatted, each as pauseTimer
\* would have stored it: the load shows it, and part_000 resumes with it.
FormatInputs == (0 - 5)..MaxFormatMs

FormatStores ==
  {StoreOf(<<"0">>, toString(ms), Null, Null) : ms \in FormatInputs}

InitFormat ==
  InitWith(FormatStores, {Provided(TRUE, TRUE, TRUE, TRUE)}, FALSE)

\* the clock runs to the very end of the cycle
RunOut ==
  /\ running /\ now < endTimeMs
  /\ AdvanceBy({endTimeMs - now}, MaxRunOuts)

NextFormat == LoadScript \/ LoadPart \/ Tick \/ RunOut

SpecFormat == InitFormat /\ [][NextFormat]_vars

\* The same program where the page or the browser lacks one thing: the
\* #timer element, Web Audio, navigator.vibrate, or a localStorage that
\* takes writes (setItem throws, as it does when the quota is exceeded).
Environments ==
  { Provided(TRUE, TRUE, TRUE, TRUE),
    Provided(FALSE, TRUE, TRUE, TRUE),
    Provided(TRUE, FALSE, TRUE, TRUE),
    Provided(TRUE, TRUE, FALSE, TRUE),
    Provided(TRUE, TRUE, TRUE, FALSE) }

FaultStores == {EmptyStore, StoreOf(<<"1">>, Null, Null, <<"7">>)}

InitFaults == InitWith(FaultStores, Environments, FALSE)

\* one page load and what the user and the scheduler do after it
NextFaults ==
  \/ LoadScript \/ LoadPart \/ Tick \/ Toggle \/ Restart \/ ToggleMute
  \/ Advance

SpecFaults == InitFaults /\ [][NextFaults]_vars

\* ------------------------------------------------------------ claims

\* C1: cycleCount is incremented exactly once per completed cycle: every
\* time the clock reaches endTimeMs while Running, one finish follows, also
\* when pause() is called after the end instant and before the next tick.
\* Stated on finite runs: once the engine is Running with time left in its
\* cycle, every cycle that reached its end has had its finish.  (A cycle
\* that restart() or a reload abandons is not counted as completed.)
C1_OncePerCompletedCycle ==
  (pc = "ready" /\ running /\ now < endTimeMs) => finishes = completed

\* C2: no double deduction across pause/resume.  (a) When startTimer
\* began or resumed a cycle with remaining time R, 0 < R < cycle length,
\* at time t0, and pauseTimer runs at time now with no finish and no
\* restart since, it leaves pausedRemainingMs = max(0, R - (now - t0)),
\* however many ticks ran.  (b) While Running, the Running time elapsed in
\* the cycle plus endTimeMs - now is the cycle length; while Paused before
\* the end of the cycle, the Running time elapsed plus pausedRemainingMs is.
C2_NoDoubleDeduction ==
  /\ [][(running /\ lastOp' = "pause" /\ resumed # << >>
           /\ Resumes(resumed[2]))
          => pausedRemainingMs' = MathMax0(resumed[2] - (now - resumed[1]))
       ]_vars
  /\ [](/\ running => cycleRun + (endTimeMs - now) = DURATION * 1000
        /\ (pc = "ready" /\ ~running /\ InRange(pausedRemainingMs)
              /\ cycleRun <= DURATION * 1000)
             => cycleRun + pausedRemainingMs = DURATION * 1000)

\* a pause 0 < d < R after a resume with remaining time R: R - d is left
C2_Witness ==
  /\ lastOp = "pause" /\ ~running
  /\ resumed # << >> /\ Resumes(resumed[2]) /\ now > resumed[1]
  /\ pausedRemainingMs = resumed[2] - (now - resumed[1])
  /\ pausedRemainingMs > 0
  /\ cycleRun + pausedRemainingMs = DURATION * 1000

\* C3: in every reachable state at most one interval timer is active:
\* exactly one (the one intervalId names) when running, none when paused.
C3_OneCallback ==
  /\ running => intervalId # 0 /\ timers = {intervalId}
  /\ ~running => timers = {}

\* running again after a pause: a start later than the load
C3_Witness ==
  /\ pc = "ready" /\ running /\ lastOp = "start"
  /\ resumed # << >> /\ resumed[1] > loadedAt
  /\ Cardinality(timers) = 1

\* C4: startTimer called while running changes nothing: not endTimeMs,
\* the timer, pausedRemainingMs, muted, sessionCount or the store, and it
\* fires no finish.
C4_StartWhileRunningNoOp ==
  [][(running /\ lastOp' = "start")
       => UNCHANGED <<running, endTimeMs, intervalId, timers,
                      pausedRemainingMs, muted, sessionCount, store,
                      finishes>>]_vars

\* a start call later than the one that set endTimeMs: it found the
\* engine running
C4_Witness ==
  /\ pc = "ready" /\ running /\ lastOp = "start"
  /\ resumed # << >> /\ resumed[1] < now

\* C5: a tick that finds remaining <= 0 leaves the engine running with
\* endTimeMs = now + cycle length, in the same step as the finish, so the
\* expired endTimeMs is seen by no later tick.
C5_FinishRestartsAtomically ==
  [][(lastOp' = "tick" /\ endTimeMs - now <= 0)
       => /\ running'
          /\ endTimeMs' = now' + DURATION * 1000
          /\ finishes' = finishes + 1]_vars

\* after a tick that fired the finish
C5_Witness ==
  /\ lastOp = "tick" /\ running /\ finishes > 0
  /\ endTimeMs = now + DURATION * 1000

\* C6: loaded from an empty store, with only clock advances and ticks
\* since, the tick delivered exactly one cycle length after the load has
\* made exactly one finish: sessionCount is 1 and stored, and the engine is
\* running with endTimeMs = now + cycle length.
C6_OneCycleEndToEnd ==
  (quiet /\ lastOp = "tick" /\ now = loadedAt + DURATION * 1000)
    => /\ finishes = 1
       /\ sessionCount = 1
       /\ store[K_COUNT] = <<"1">>
       /\ running
       /\ endTimeMs = now + DURATION * 1000

C6_Witness ==
  /\ quiet /\ lastOp = "tick" /\ now = loadedAt + DURATION * 1000
  /\ finishes = 1 /\ sessionCount = 1 /\ running

\* the strings the engine writes under the two integer keys
IsDecimal(v) ==
  ~IsNaN(ParseInt(v)) /\ ParseInt(v) >= 0 /\ toString(ParseInt(v)) = v

\* a stored integer entry that is not a parsable decimal integer
Malformed(v) == Truthy(v) /\ IsNaN(ParseInt(v))

\* a store the engine can have written by the time the page is closed
EngineWritten(st) ==
  /\ st[K_RUNNING] \in {<<"0">>, <<"1">>}
  /\ st[K_PAUSED] # Null => IsDecimal(st[K_PAUSED])
                              /\ ParseInt(st[K_PAUSED]) <= DURATION * 1000
  /\ st[K_RUNNING] = <<"0">> => st[K_PAUSED] # Null
  /\ st[K_RUNNING] = <<"1">>
       => st[K_PAUSED] \in {Null, toString(DURATION * 1000)}
  /\ st[K_MUTED] \in {Null, BoolToString(TRUE), BoolToString(FALSE)}
  /\ st[K_COUNT] # Null => IsDecimal(st[K_COUNT])

\* C7: persisted-state round trip: a page load from a store the engine
\* wrote yields the stored phase, the stored remaining time (when paused),
\* the stored mute flag and the stored cycle count.
C7_RoundTrip ==
  [][(lastOp' = "load" /\ EngineWritten(store))
       => /\ running' = (store[K_RUNNING] = <<"1">>)
          /\ ~running' => pausedRemainingMs' = ParseInt(store[K_PAUSED])
          /\ muted' = (store[K_MUTED] = BoolToString(TRUE))
          /\ sessionCount' = IF store[K_COUNT] = Null THEN 0
                             ELSE ParseInt(store[K_COUNT])]_vars

\* C8: a stored integer that does not parse is treated as absent: after
\* the load the value is the default (sessionCount 0, a full cycle), as
\* if the entry had not been stored.
C8_MalformedAsAbsent ==
  [][lastOp' = "load"
       => /\ Malformed(store[K_COUNT]) => sessionCount' = 0
          /\ Malformed(store[K_PAUSED])
               => /\ pausedRemainingMs' = DURATION * 1000
                  /\ running' => endTimeMs' = now + DURATION * 1000]_vars

\* C9: in every state after initialisation, whatever integer was stored
\* under shanti_paused_remaining, 0 <= pausedRemainingMs <= cycle length.
C9_RemainingInRange ==
  (pc = "ready" /\ ~IsNaN(pausedRemainingMs))
    => 0 <= pausedRemainingMs /\ pausedRemainingMs <= DURATION * 1000

\* C10: restartTimer changes neither the phase nor sessionCount and fires
\* no finish; it leaves pausedRemainingMs at the cycle length and stores
\* it; while running it sets endTimeMs = now + cycle length, while paused
\* it leaves endTimeMs and the (absent) timer alone, so that the next
\* start begins a full cycle.
C10_RestartKeepsPhase ==
  [][lastOp' = "restart"
       => /\ running' = running
          /\ finishes' = finishes /\ sessionCount' = sessionCount
          /\ pausedRemainingMs' = DURATION * 1000
          /\ store'[K_PAUSED] = toString(DURATION * 1000)
          /\ running => endTimeMs' = now + DURATION * 1000
          /\ ~running => endTimeMs' = endTimeMs /\ timers' = {}]_vars

\* a restart while running, at or after the cycle's end instant and before
\* the tick that would have finished it
C10_Witness ==
  /\ lastOp = "restart" /\ running
  /\ now >= loadedAt + DURATION * 1000 /\ finishes = 0
  /\ endTimeMs = now + DURATION * 1000
  /\ store[K_PAUSED] = toString(DURATION * 1000)

\* C14: toggleMute flips muted and stores it under shanti_muted; it leaves
\* the phase, endTimeMs, pausedRemainingMs, sessionCount, the timer and
\* the other three stored entries unchanged, running or paused.
C14_MuteFrame ==
  [][lastOp' = "mute"
       => /\ muted' = ~muted
          /\ store'[K_MUTED] = BoolToString(muted')
          /\ \A k \in Keys \ {K_MUTED} : store'[k] = store[k]
          /\ UNCHANGED <<running, endTimeMs, pausedRemainingMs, sessionCount,
                         intervalId, timers, finishes>>]_vars

\* muted while running, inside a cycle
C14_Witness ==
  /\ lastOp = "mute" /\ muted /\ running /\ now > loadedAt
  /\ store[K_MUTED] = BoolToString(TRUE)
  /\ store[K_RUNNING] = <<"1">>

\* C18: a reload while the phase was Running (the store holds
\* shanti_running = "1" when the page loads again) starts a full cycle:
\* running, endTimeMs = now + cycle length, sessionCount the stored count,
\* and no finish fired for the interrupted cycle.
C18_ReloadWhileRunning ==
  [][(loads >= 1 /\ lastOp' = "load" /\ store[K_RUNNING] = <<"1">>)
       => /\ running'
          /\ endTimeMs' = now + DURATION * 1000
          /\ sessionCount' = IF Truthy(store[K_COUNT])
                             THEN ParseInt(store[K_COUNT]) ELSE 0
          /\ finishes' = finishes
          /\ store'[K_COUNT] = store[K_COUNT]]_vars

\* reloaded while Running, later than the first load: a full cycle
C18_Witness ==
  /\ loads = 2 /\ lastOp = "load" /\ running /\ now > 0
  /\ endTimeMs = now + DURATION * 1000
  /\ store[K_RUNNING] = <<"1">>

\* C19: after initialisation and after every operation the store agrees
\* with the variables: shanti_running is "1" exactly when running; while
\* paused, shanti_paused_remaining, when stored, is pausedRemainingMs;
\* shanti_muted, when stored, is muted; shanti_session_count, when stored,
\* is sessionCount.
C19_StoreAgrees ==
  pc = "ready"
    => /\ (store[K_RUNNING] = <<"1">>) <=> running
       /\ (~running /\ store[K_PAUSED] # Null)
            => ParseInt(store[K_PAUSED]) = pausedRemainingMs
       /\ store[K_MUTED] # Null
            => (store[K_MUTED] = BoolToString(TRUE)) <=> muted
       /\ store[K_COUNT] # Null => ParseInt(store[K_COUNT]) = sessionCount

\* paused inside a cycle, after a finish: all four entries stored
C19_Witness ==
  /\ pc = "ready" /\ lastOp = "pause" /\ ~running /\ finishes > 0
  /\ store[K_RUNNING] = <<"0">>
  /\ Resumes(pausedRemainingMs)
  /\ store[K_PAUSED] = toString(pausedRemainingMs)
  /\ store[K_COUNT] = toString(sessionCount)

\* C20: while paused the clock changes nothing, and a later start resumes
\* with exactly the pausedRemainingMs that pauseTimer recorded: endTimeMs
\* becomes now + pausedRemainingMs.
C20_ResumesExactly ==
  [][(pc = "ready" /\ ~running /\ running' /\ lastOp' = "start"
        /\ InRange(pausedRemainingMs))
       => endTimeMs' = now + pausedRemainingMs]_vars

\* C12: no failure is fatal: also when a capability is absent or a store
\* write fails, a tick that finds the cycle at its end performs the finish:
\* sessionCount goes up by exactly one, endTimeMs becomes now + cycle
\* length, and the engine stays Running with its timer.
C12_NoFailureIsFatal ==
  [][(lastOp' = "tick" /\ running /\ endTimeMs - now <= 0)
       => /\ sessionCount' = JsAdd(sessionCount, 1)
          /\ endTimeMs' = now + DURATION * 1000
          /\ running' /\ timers' # {}]_vars

\* C15: on every finish the chime and the vibration are emitted exactly
\* when muted is false (and Web Audio, navigator.vibrate exist), the
\* announcement is emitted whatever muted is, and nothing is emitted
\* outside a finish; a finish, muted or not, adds one to sessionCount and
\* (the store taking writes) begins the next cycle.
C15_EffectsFollowMute ==
  /\ [][finishes' = finishes + 1
          => /\ "announce" \in fx'
             /\ "chime" \in fx' <=> (~muted /\ webAudio)
             /\ "vibrate" \in fx' <=> (~muted /\ vibrateApi)
             /\ sessionCount' = JsAdd(sessionCount, 1)
             /\ ~storageFails
                  => running' /\ endTimeMs' = now + DURATION * 1000]_vars
  /\ [][fx' # {} => finishes' = finishes + 1]_vars

\* a muted finish in a browser with Web Audio and navigator.vibrate:
\* announced, silent, counted, next cycle begun
C15_Witness ==
  /\ lastOp = "tick" /\ muted /\ webAudio /\ vibrateApi
  /\ fx = {"announce"}
  /\ finishes > 0 /\ running /\ endTimeMs = now + DURATION * 1000

\* text is the two-digit zero-padded MM:SS rendering of the least whole
\* number of seconds that is not below max(0, ms) milliseconds
Renders(text, ms) ==
  LET m == IF ms > 0 THEN ms ELSE 0
      secs == CHOOSE k \in 0..(m \div 1000 + 1) :
                k * 1000 >= m /\ (k = 0 \/ (k - 1) * 1000 < m)
  IN /\ Len(text) = 5 /\ text[3] = ":"
     /\ \A i \in {1, 2, 4, 5} : IsDigit(text[i])
     /\ 10 * DigitVal(text[1]) + DigitVal(text[2]) = secs \div 60
     /\ 10 * DigitVal(text[4]) + DigitVal(text[5]) = secs % 60

\* C16: msToMMSS(ms) is the two-digit zero-padded MM:SS rendering of
\* ceil(max(0, ms) / 1000) seconds for every ms of the range, as shown by
\* the load for a stored remaining time and by tick for the time left;
\* msToMMSS(0) = "00:00", msToMMSS(1) = "00:01", msToMMSS(60000) = "01:00",
\* msToMMSS(-5) = "00:00"; a tick with time left never shows "00:00", and
\* a tick that shows "00:00" is a finish.
C16_Formatting ==
  /\ [](/\ msToMMSS(0) = T_0000
        /\ msToMMSS(1) = <<"0", "0", ":", "0", "1">>
        /\ msToMMSS(60000) = T_0100
        /\ msToMMSS(0 - 5) = T_0000)
  /\ [][lastOp' = "load"
          => Renders(shown', ParseInt(store[K_PAUSED]))]_vars
  /\ [][lastOp' = "tick"
          => IF endTimeMs - now > 0
             THEN /\ Renders(shown', endTimeMs - now)
                  /\ shown' # T_0000
                  /\ finishes' = finishes
             ELSE shown' = T_0000 /\ finishes' = finishes + 1]_vars

\* a tick with 1 ms left has shown "00:01"
C16_Witness ==
  /\ lastOp = "tick" /\ endTimeMs - now = 1
  /\ shown = <<"0", "0", ":", "0", "1">>

\* the time by which the current cycle ends after the instant it would end
\* at, had every cycle since the load lasted exactly the cycle length
Lateness == endTimeMs - (loadedAt + (finishes + 1) * DURATION * 1000)

\* C11: tick lateness does not compound: in uninterrupted Running since
\* the load, the lateness accumulated over the finishes so far is bounded
\* by the delay of a single finishing tick (the largest there was).
C11_LatenessOfOneTick == (quiet /\ running) => Lateness <= late[2]

\* C11 amended: a tick uses endTimeMs - now and leaves endTimeMs alone
\* while time is left, so lateness does not compound within a cycle; each
\* finish begins the next cycle at its own now, so over uninterrupted
\* Running the accumulated lateness is the sum of the delays of the
\* finishing ticks.
C11_LatenessIsSum ==
  /\ []((quiet /\ running) => Lateness = late[1])
  /\ [][(lastOp' = "tick" /\ endTimeMs - now > 0)
          => endTimeMs' = endTimeMs /\ shown' = msToMMSS(endTimeMs - now)
       ]_vars

\* two finishes, each by a late tick: the lateness is that of both
C11_Witness ==
  /\ quiet /\ running /\ lastOp = "tick" /\ finishes = 2
  /\ late[2] > 0 /\ late[1] = 2 * late[2] /\ Lateness = late[1]

\* whether the background music can be heard
Audible == playing /\ ~elMuted

\* C13: on a page with background music the loop follows the mute flag
\* over every sequence of mute toggles and user events: it is never heard
\* while muted, and after an unmute followed by a user event, at which the
\* browser allows playing, it is heard.
C13_LoopFollowsMute ==
  /\ []((pc = "ready" /\ muted) => ~Audible)
  /\ [][(pc = "ready" /\ lastOp = "mute" /\ ~muted /\ ~blocked
           /\ lastOp' \in {"interact", "restart"})
          => Audible']_vars

\* C17: the engine is perpetual.  While running a timer is active (no
\* terminal state), and under fair ticks and an advancing clock, from
\* every Running state (the clock having cycles left to run) the engine
\* comes to a finish that leaves it Running in a new cycle, unless it is
\* paused: finishes recur for as long as it is not paused.
C17_Perpetual ==
  /\ []((pc = "ready" /\ running) => timers # {})
  /\ (pc = "ready" /\ running /\ advances < MaxCycles)
       ~> \/ "announce" \in fx /\ running /\ now < endTimeMs
          \/ ~running

\* the finish of the last cycle the clock ran through, Running again
C17_Witness ==
  /\ "announce" \in fx /\ running /\ now < endTimeMs
  /\ finishes = MaxCycles /\ advances = MaxCycles

\* C21: pauseTimer immediately followed by startTimer, no clock time
\* between them, restores the endTimeMs of before the pause (which
\* pauseTimer leaves in place) and changes neither sessionCount nor the
\* finishes fired, leaving the engine Running with one timer, from every
\* Running state: also with exactly the cycle length left, and with the end
\* already reached and the tick still to come.
C21_PauseStartRestores ==
  [][(pc = "ready" /\ lastOp = "pause" /\ ~running
        /\ pausedRemainingMs = MathMax0(endTimeMs - now)
        /\ lastOp' = "start")
       => /\ endTimeMs' = endTimeMs
          /\ sessionCount' = sessionCount /\ finishes' = finishes
          /\ running' /\ Cardinality(timers') = 1]_vars

====
